---- MODULE Spec2Model ----
(***************************************************************************)
(* Model of crossedbot/simpleauth: package grants (pkg/grants/grant.go),   *)
(* with the Grant bitmask, the GrantStrings name table with its custom     *)
(* range and the codec between grants and their comma-separated string     *)
(* form, and package controller (pkg/controller), with the token issuance  *)
(* of utils.go and the login, signup, TOTP and refresh operations of       *)
(* controller.go behind the handlers of handlers.go.                       *)
(*                                                                         *)
(* A Grant (Go: uint32) is modelled as the set of its set bit positions,   *)
(* a subset of 0..31: a & b is a \cap b, a | b is a \cup b, ^a is          *)
(* (0..31) \ a and the zero value is {}.  The width is kept: no operator   *)
(* produces a position outside 0..31.                                      *)
(*                                                                         *)
(* A Go string is modelled as the sequence of its characters, each a       *)
(* one-character string, so that splitting, trimming and case folding are  *)
(* computed and not assumed.                                               *)
(***************************************************************************)
EXTENDS Integers, Sequences, FiniteSets, TLC

VARIABLES
    GrantStrings,   \* the package-level map[Grant]string
    call,           \* the last call made and what it returned
    lastSet,        \* history: argument of the last SetCustomGrants that returned nil
    db,             \* the users collection of the database: one account
    setter,         \* the SetCustomGrants call in progress, if any
    issuer          \* the GenerateTokens call in progress, if any

\* the state outside package grants
ctl == <<db, setter, issuer>>

vars == <<GrantStrings, call, lastSet, ctl>>

----------------------------------------------------------------------------
(* Bounds of the model *)

\* Longest list of names, over NamePool, handed to SetCustomGrants
MaxNames == 2
\* Most comma-separated segments of a generated ToGrant input
MaxSegs == 2
\* Most sample bits set together in a generated Grant
MaxBits == 2
\* Most names handed to GetCustomGrant
MaxFilter == 2

----------------------------------------------------------------------------
(* Strings *)

Uppers == <<"A", "B", "C", "D", "E", "F", "G", "H", "I", "J", "K", "L", "M",
            "N", "O", "P", "Q", "R", "S", "T", "U", "V", "W", "X", "Y", "Z">>
Lowers == <<"a", "b", "c", "d", "e", "f", "g", "h", "i", "j", "k", "l", "m",
            "n", "o", "p", "q", "r", "s", "t", "u", "v", "w", "x", "y", "z">>

\* Simple case folding of one character of the alphabet used
Fold(c) ==
    IF \E i \in 1..Len(Uppers) : Uppers[i] = c
    THEN Lowers[CHOOSE i \in 1..Len(Uppers) : Uppers[i] = c]
    ELSE c

\* strings.EqualFold
EqualFold(s, t) ==
    /\ Len(s) = Len(t)
    /\ \A i \in 1..Len(s) : Fold(s[i]) = Fold(t[i])

IsSpace(c) == c \in {" ", "\t", "\n", "\r"}

RECURSIVE TrimLeft(_)
TrimLeft(s) ==
    IF s # <<>> /\ IsSpace(Head(s)) THEN TrimLeft(Tail(s)) ELSE s

RECURSIVE TrimRight(_)
TrimRight(s) ==
    IF s # <<>> /\ IsSpace(s[Len(s)])
    THEN TrimRight(SubSeq(s, 1, Len(s) - 1))
    ELSE s

\* strings.TrimSpace
TrimSpace(s) == TrimRight(TrimLeft(s))

\* strings.Split(s, sep) for a one-character sep: n separators give n+1 parts
RECURSIVE SplitFrom(_, _, _)
SplitFrom(s, sep, cur) ==
    IF s = <<>> THEN <<cur>>
    ELSE IF Head(s) = sep
         THEN <<cur>> \o SplitFrom(Tail(s), sep, <<>>)
         ELSE SplitFrom(Tail(s), sep, Append(cur, Head(s)))

Split(s, sep) == SplitFrom(s, sep, <<>>)

\* strings.Join(parts, sep)
RECURSIVE Join(_, _)
Join(parts, sep) ==
    IF parts = <<>> THEN <<>>
    ELSE IF Len(parts) = 1 THEN Head(parts)
         ELSE Head(parts) \o <<sep>> \o Join(Tail(parts), sep)

----------------------------------------------------------------------------
(* Grants *)

GrantDelimiter == ","
MaxCustomGrants == 8

GrantSectionOTP == 1..7
GrantSectionUsers == 8..15
GrantSectionCustom == 16..23
GrantSectionReserved == 24..31

GrantUnknown == {}
GrantNone == {0}

GrantSetOTP == {1}
GrantOTPValidate == {2}
GrantOTPQR == {3}
GrantOTP == {1, 2, 3}

GrantUsersRefresh == {8}

GrantAuthenticated == {1, 2, 3, 8}

GrantFull == 1..31
GrantMax == 0..31

StrUnknown == <<"u", "n", "k", "n", "o", "w", "n">>
StrNone == <<"n", "o", "n", "e">>
StrSetOTP == <<"o", "t", "p">>
StrOTPValidate == <<"o", "t", "p", "-", "v", "a", "l", "i", "d", "a", "t", "e">>
StrOTPQR == <<"o", "t", "p", "-", "q", "r">>
StrUsersRefresh == <<"u", "s", "e", "r", "s", "-", "r", "e", "f", "r", "e", "s", "h">>
StrOTP == <<"o", "t", "p", "-", "a", "l", "l">>
StrAuthenticated == <<"a", "u", "t", "h", "e", "n", "t", "i", "c", "a", "t", "e", "d">>

\* The table as the package initialises it
InitGrantStrings ==
    (GrantUnknown :> StrUnknown) @@ (GrantNone :> StrNone) @@
    (GrantSetOTP :> StrSetOTP) @@ (GrantOTPValidate :> StrOTPValidate) @@
    (GrantOTPQR :> StrOTPQR) @@ (GrantUsersRefresh :> StrUsersRefresh) @@
    (GrantOTP :> StrOTP) @@ (GrantAuthenticated :> StrAuthenticated)

\* An error value: nil, or an error with its message
Nil == [nil |-> TRUE, msg |-> <<>>]
Error(msg) == [nil |-> FALSE, msg |-> msg]

\* fmt.Errorf("Unknown grant '%s'", p)
ErrUnknownGrant(p) ==
    Error(<<"U", "n", "k", "n", "o", "w", "n", " ",
            "g", "r", "a", "n", "t", " ", "'">> \o p \o <<"'">>)

\* fmt.Errorf("%d exceeds max allowable length of %d\n", n, MaxCustomGrants):
\* the two numbers are kept as numbers
ErrTooManyGrants(n) == [nil |-> FALSE, msg |-> <<n, MaxCustomGrants>>]

\* errors.New("Request does not match grant")
ErrRequestGrant ==
    Error(<<"R", "e", "q", "u", "e", "s", "t", " ", "d", "o", "e", "s",
            " ", "n", "o", "t", " ", "m", "a", "t", "c", "h", " ", "g",
            "r", "a", "n", "t">>)

\* middleware.ErrGrantDataType, a value of the simplemiddleware package told
\* apart from the other errors by its name
ErrGrantDataType == Error(<<"ErrGrantDataType">>)

(* ToGrant over a given table.  The inner loop ranges over a Go map, whose   *)
(* iteration order is not specified, and stops at the first entry whose name *)
(* matches: when several entries match, any of them may be the one taken.    *)
(* The result is therefore the set of the (grant, error) pairs a run can     *)
(* return.                                                                   *)
\* ToGrant with grant = k for grant |= k (a faulty variant of ToGrantParts)
RECURSIVE ToGrantParts_Assign(_, _, _)
ToGrantParts_Assign(table, parts, grant) ==
    IF parts = <<>> THEN {[grant |-> grant, err |-> Nil]}
    ELSE LET p == TrimSpace(Head(parts))
             found == {k \in DOMAIN table : EqualFold(p, table[k])}
         IN  IF found = {}
             THEN {[grant |-> GrantUnknown, err |-> ErrUnknownGrant(p)]}
             ELSE UNION {ToGrantParts_Assign(table, Tail(parts), k) :
                            k \in found}

\* ToGrant returning the grant built so far with the error (a faulty
\* variant of ToGrantParts)
RECURSIVE ToGrantParts_Partial(_, _, _)
ToGrantParts_Partial(table, parts, grant) ==
    IF parts = <<>> THEN {[grant |-> grant, err |-> Nil]}
    ELSE LET p == TrimSpace(Head(parts))
             found == {k \in DOMAIN table : EqualFold(p, table[k])}
         IN  IF found = {}
             THEN {[grant |-> grant, err |-> ErrUnknownGrant(p)]}
             ELSE UNION {ToGrantParts_Partial(table, Tail(parts), grant \cup k) :
                            k \in found}

RECURSIVE ToGrantParts(_, _, _)
ToGrantParts(table, parts, grant) ==
    IF parts = <<>> THEN {[grant |-> grant, err |-> Nil]}
    ELSE LET p == TrimSpace(Head(parts))
             found == {k \in DOMAIN table : EqualFold(p, table[k])}
         IN  IF found = {}
             THEN {[grant |-> GrantUnknown, err |-> ErrUnknownGrant(p)]}
             ELSE UNION {ToGrantParts(table, Tail(parts), grant \cup k) :
                            k \in found}

ToGrantIn(table, s) ==
    ToGrantParts(table, Split(s, GrantDelimiter), GrantUnknown)

\* ToGrant(s) as called against the package-level table
ToGrant(s) == ToGrantIn(GrantStrings, s)

(* The second loop of SetCustomGrants from its i-th accepted name on: the    *)
(* set of tables it can end with (ToGrant may have several outcomes).        *)
RECURSIVE SetCustomGrantsLoop(_, _, _)
SetCustomGrantsLoop(table, grants, i) ==
    IF grants = <<>> THEN {table}
    ELSE LET g == Head(grants)
             ts == {o.grant : o \in ToGrantIn(table, g)}
             shift == 15 + (i + 1)
             v == {shift} \cap GrantSectionCustom
         IN  (IF GrantUnknown \in ts
              THEN SetCustomGrantsLoop((v :> g) @@ table, Tail(grants), i + 1)
              ELSE {})
             \cup
             (IF ts # {GrantUnknown}
              THEN SetCustomGrantsLoop(table, Tail(grants), i)
              ELSE {})

\* The first loop of SetCustomGrants: every custom-range entry is deleted
DeleteCustom(table) ==
    [k \in {x \in DOMAIN table : x \cap GrantSectionCustom = {}} |-> table[k]]

\* SetCustomGrants deleting the custom entries before it checks the length
\* (a faulty variant of SetCustomGrantsResults)
SetCustomGrantsResults_DeleteFirst(table, grants) ==
    IF Len(grants) > MaxCustomGrants
    THEN {[table |-> DeleteCustom(table), err |-> ErrTooManyGrants(Len(grants))]}
    ELSE {[table |-> t, err |-> Nil] :
             t \in SetCustomGrantsLoop(DeleteCustom(table), grants, 0)}

\* What SetCustomGrants(grants) can leave and return: pairs (table, error)
SetCustomGrantsResults(table, grants) ==
    IF Len(grants) > MaxCustomGrants
    THEN {[table |-> table, err |-> ErrTooManyGrants(Len(grants))]}
    ELSE {[table |-> t, err |-> Nil] :
             t \in SetCustomGrantsLoop(DeleteCustom(table), grants, 0)}

\* ContainsGrant that is content with one shared bit (a faulty variant of
\* ContainsGrantResults)
ContainsGrantResults_Overlap(grant, claim) ==
    IF ~(claim.present /\ claim.isString) THEN {ErrGrantDataType}
    ELSE { IF ~o.err.nil THEN o.err
           ELSE IF grant # {} /\ (o.grant \cap grant) = {} THEN ErrRequestGrant
           ELSE Nil : o \in ToGrant(claim.val) }

\* ContainsGrant that asks the required grant to hold the parsed one (a faulty
\* variant of ContainsGrantResults)
ContainsGrantResults_Reversed(grant, claim) ==
    IF ~(claim.present /\ claim.isString) THEN {ErrGrantDataType}
    ELSE { IF ~o.err.nil THEN o.err
           ELSE IF (o.grant \cap grant) # o.grant THEN ErrRequestGrant
           ELSE Nil : o \in ToGrant(claim.val) }

\* ContainsGrant(grant, r): claim is the value r's context holds under
\* middleware.ClaimGrant, present or not, a string or not.  The errors a run
\* can return, one for each result ToGrant can give.
ContainsGrantResults(grant, claim) ==
    IF ~(claim.present /\ claim.isString) THEN {ErrGrantDataType}
    ELSE { IF ~o.err.nil THEN o.err
           ELSE IF (o.grant \cap grant) # grant THEN ErrRequestGrant
           ELSE Nil : o \in ToGrant(claim.val) }

\* GetCustomGrant without its limit (a faulty variant of GetCustomGrant)
GetCustomGrant_NoLimit(grant) ==
    UNION {k \in DOMAIN GrantStrings : k \cap GrantSectionCustom # {}}

\* GetCustomGrant(grant...): grant is the list of the variadic arguments
GetCustomGrant(grant) ==
    LET limit == Len(grant) > 0
    IN  UNION {k \in DOMAIN GrantStrings :
                  /\ k \cap GrantSectionCustom # {}
                  /\ limit => \E i \in 1..Len(grant) :
                                 EqualFold(GrantStrings[k], grant[i])}

\* IsCustomGrantsSet()
IsCustomGrantsSet ==
    (GetCustomGrant(<<>>) \cap GrantSectionCustom) # GrantUnknown

\* Clean with | for & (a faulty variant of Clean)
Clean_OrFilter(g) ==
    IF (g \cap GrantNone) = GrantNone THEN GrantNone
    ELSE g \cup (GrantAuthenticated \cup
                    (IF IsCustomGrantsSet THEN GrantSectionCustom ELSE {}))

\* Clean testing g == GrantNone instead of the None bit (a faulty variant of Clean)
Clean_NoneExact(g) ==
    IF g = GrantNone THEN GrantNone
    ELSE g \cap (GrantAuthenticated \cup
                    (IF IsCustomGrantsSet THEN GrantSectionCustom ELSE {}))

\* Clean with ^ for & (a faulty variant of Clean)
Clean_XorFilter(g) ==
    IF (g \cap GrantNone) = GrantNone THEN GrantNone
    ELSE LET filter == GrantAuthenticated \cup
                         (IF IsCustomGrantsSet THEN GrantSectionCustom ELSE {})
         IN  (g \cup filter) \ (g \cap filter)

\* Grant.Clean
Clean(g) ==
    IF (g \cap GrantNone) = GrantNone THEN GrantNone
    ELSE LET filter == GrantAuthenticated \cup
                         (IF IsCustomGrantsSet THEN GrantSectionCustom ELSE {})
         IN  g \cap filter

\* One round of the loop of Grant.String: the names bit i adds
StringBit(g, i) ==
    LET v == {i} \cap g
    IN  IF v = GrantNone THEN <<GrantStrings[GrantNone]>>
        ELSE IF v = GrantSetOTP THEN <<GrantStrings[GrantSetOTP]>>
        ELSE IF v = GrantOTPValidate THEN <<GrantStrings[GrantOTPValidate]>>
        ELSE IF v = GrantOTPQR THEN <<GrantStrings[GrantOTPQR]>>
        ELSE IF v = GrantUsersRefresh THEN <<GrantStrings[GrantUsersRefresh]>>
        ELSE IF v \cap GrantSectionCustom # {} /\ v \in DOMAIN GrantStrings
             THEN <<GrantStrings[v]>>
             ELSE <<>>

RECURSIVE StringNames(_, _)
StringNames(g, i) ==
    IF i >= 32 THEN <<>> ELSE StringBit(g, i) \o StringNames(g, i + 1)

\* String that answers with the table entry of the whole value when there is
\* one (a faulty variant of String)
String_Composite(g) ==
    LET grants == StringNames(g, 0)
    IN  IF g \in DOMAIN GrantStrings THEN GrantStrings[g]
        ELSE IF Len(grants) = 0 THEN GrantStrings[GrantUnknown]
        ELSE Join(grants, GrantDelimiter)

\* Grant.String
String(g) ==
    LET grants == StringNames(g, 0)
    IN  IF Len(grants) = 0 THEN GrantStrings[GrantUnknown]
        ELSE Join(grants, GrantDelimiter)

\* Short that leaves the custom part out (a faulty variant of Short)
Short_NoCustom(g) ==
    LET grant == g \cap (((0..31) \ GrantSectionCustom) \cap
                           ((0..31) \ GrantSectionReserved))
    IN  IF grant \in DOMAIN GrantStrings THEN GrantStrings[grant]
        ELSE String(grant)

\* Short that appends the custom part even when it is the empty string (a
\* faulty variant of Short)
Short_NoGuard(g) ==
    LET grant == g \cap (((0..31) \ GrantSectionCustom) \cap
                           ((0..31) \ GrantSectionReserved))
        s == IF grant \in DOMAIN GrantStrings THEN GrantStrings[grant]
             ELSE String(grant)
        customGrant == g \cap GrantSectionCustom
        other == String(customGrant)
    IN  IF customGrant # GrantUnknown
        THEN IF grant = GrantUnknown THEN other
             ELSE Join(<<s, other>>, GrantDelimiter)
        ELSE s

\* Grant.Short
Short(g) ==
    LET grant == g \cap (((0..31) \ GrantSectionCustom) \cap
                           ((0..31) \ GrantSectionReserved))
        s == IF grant \in DOMAIN GrantStrings THEN GrantStrings[grant]
             ELSE String(grant)
        customGrant == g \cap GrantSectionCustom
        other == String(customGrant)
    IN  IF customGrant # GrantUnknown /\ other # <<>>
        THEN IF grant = GrantUnknown THEN other
             ELSE Join(<<s, other>>, GrantDelimiter)
        ELSE s

----------------------------------------------------------------------------
(* Tokens (pkg/controller/utils.go) *)

\* Token lifetimes, in minutes
AccessTokenExpiration == 60
RefreshTokenExpiration == 1440
TransactionTokenExpiration == 5

\* options == nil; the fields of a nil pointer are never read
NilOptions ==
    [nil |-> TRUE, Grant |-> GrantUnknown, TTL |-> 0, RefreshTTL |-> 0,
     SkipRefresh |-> FALSE]

\* &TokenOptions{Grant, TTL, RefreshTTL, SkipRefresh}
TokenOptions(grant, ttl, refreshTtl, skipRefresh) ==
    [nil |-> FALSE, Grant |-> grant, TTL |-> ttl, RefreshTTL |-> refreshTtl,
     SkipRefresh |-> skipRefresh]

\* A token is a string: "" is the empty sequence, a signed token is modelled
\* as the one-element sequence holding the claims it carries
EmptyToken == <<>>

\* simplejwt's Sign(privKey): the signed token, or the signer's error;
\* outcome is Nil when the signer succeeds and its error when it fails
Sign(claims, outcome) ==
    IF outcome = Nil THEN [tkn |-> <<claims>>, err |-> Nil]
    ELSE [tkn |-> EmptyToken, err |-> outcome]

\* The grant GenerateTokens encodes
TokenGrant(options) ==
    LET default == IF IsCustomGrantsSet
                   THEN GrantAuthenticated \cup GetCustomGrant(<<>>)
                   ELSE GrantAuthenticated
    IN  IF ~options.nil /\ options.Grant # GrantUnknown THEN options.Grant
        ELSE default

\* Access claims without Clean (a faulty variant of AccessClaims)
AccessClaims_NoClean(options) ==
    [grant |-> Short(TokenGrant(options)),
     exp |-> IF ~options.nil /\ options.TTL > 0 THEN options.TTL
             ELSE AccessTokenExpiration]

\* The claims of the access token; exp is kept as the lifetime added to
\* time.Now(), the claims copied from the user are left out
AccessClaims(options) ==
    [grant |-> Short(Clean(TokenGrant(options))),
     exp |-> IF ~options.nil /\ options.TTL > 0 THEN options.TTL
             ELSE AccessTokenExpiration]

\* Refresh claims carrying the grant of the access token (a faulty variant
\* of RefreshClaims)
RefreshClaims_AccessGrant(options) ==
    [grant |-> Short(Clean(TokenGrant(options))),
     exp |-> IF ~options.nil /\ options.RefreshTTL > 0 THEN options.RefreshTTL
             ELSE RefreshTokenExpiration]

\* The claims of the refresh token
RefreshClaims(options) ==
    [grant |-> String(GrantUsersRefresh),
     exp |-> IF ~options.nil /\ options.RefreshTTL > 0 THEN options.RefreshTTL
             ELSE RefreshTokenExpiration]

\* GenerateTokens that keeps the access token when signing the refresh token
\* fails (a faulty variant of GenerateTokens)
GenerateTokens_Partial(options, signAccess, signRefresh) ==
    LET access == Sign(AccessClaims(options), signAccess)
        refresh == Sign(RefreshClaims(options), signRefresh)
    IN  IF access.err # Nil
        THEN [tkn |-> EmptyToken, refreshTkn |-> EmptyToken, err |-> access.err]
        ELSE IF options.nil \/ ~options.SkipRefresh
        THEN [tkn |-> access.tkn, refreshTkn |-> refresh.tkn, err |-> refresh.err]
        ELSE [tkn |-> access.tkn, refreshTkn |-> EmptyToken, err |-> Nil]

\* GenerateTokens(user, pubKey, privKey, options): signAccess and signRefresh
\* are what the signer answers at the two steps
GenerateTokens(options, signAccess, signRefresh) ==
    LET access == Sign(AccessClaims(options), signAccess)
        refresh == Sign(RefreshClaims(options), signRefresh)
    IN  IF access.err # Nil
        THEN [tkn |-> EmptyToken, refreshTkn |-> EmptyToken, err |-> access.err]
        ELSE IF options.nil \/ ~options.SkipRefresh
        THEN IF refresh.err # Nil
             THEN [tkn |-> EmptyToken, refreshTkn |-> EmptyToken,
                   err |-> refresh.err]
             ELSE [tkn |-> access.tkn, refreshTkn |-> refresh.tkn, err |-> Nil]
        ELSE [tkn |-> access.tkn, refreshTkn |-> EmptyToken, err |-> Nil]

----------------------------------------------------------------------------
(* Controller (pkg/controller/controller.go) over one account *)

\* The account: exists is whether the collection holds it, Totp whether its
\* stored TOTP secret is a non-empty string
NoUser ==
    [exists |-> FALSE, TotpEnabled |-> FALSE, Totp |-> FALSE,
     Token |-> EmptyToken, RefreshToken |-> EmptyToken]

\* models.AccessToken{}
NoAccessToken ==
    [Token |-> EmptyToken, RefreshToken |-> EmptyToken, OtpRequired |-> FALSE]

\* Errors of the controller and of what it calls, told apart by their names
ErrorUserNotFound == Error(<<"ErrorUserNotFound">>)
ErrorBadCredentials == Error(<<"ErrorBadCredentials">>)
ErrorTotpNotFound == Error(<<"ErrorTotpNotFound">>)
ErrUserExists == Error(<<"ErrUserExists">>)
ErrInvalidUser == Error(<<"ErrInvalidUser">>)
ErrDatabase == Error(<<"ErrDatabase">>)
ErrTotp == Error(<<"ErrTotp">>)

\* What a controller operation gives back: the value it returns, its error,
\* and the account as it leaves it
Outcome(ret, err, user) == [ret |-> ret, err |-> err, db |-> user]

\* The options Login builds for an account
LoginOptions(user) ==
    IF user.TotpEnabled
    THEN TokenOptions(GrantOTPValidate, TransactionTokenExpiration, 0, TRUE)
    ELSE TokenOptions(GrantUnknown, 0, 0, FALSE)

\* The tail shared by Login, ValidateOtp and RefreshToken: GenerateTokens,
\* db.UpdateTokens, and the AccessToken returned
IssueAndStore(user, options, signAccess, signRefresh, updateErr) ==
    LET t == GenerateTokens(options, signAccess, signRefresh)
    IN  IF t.err # Nil THEN Outcome(NoAccessToken, t.err, user)
        ELSE IF updateErr # Nil THEN Outcome(NoAccessToken, updateErr, user)
        ELSE Outcome([Token |-> t.tkn, RefreshToken |-> t.refreshTkn,
                      OtpRequired |-> user.TotpEnabled],
                     Nil,
                     [user EXCEPT !.Token = t.tkn,
                                  !.RefreshToken = t.refreshTkn])

\* Login that hands out default options whatever the account (a faulty
\* variant of ControllerLogin)
ControllerLogin_NoTotp(user, passwordOK, signAccess, signRefresh, updateErr) ==
    IF ~user.exists THEN Outcome(NoAccessToken, ErrorUserNotFound, user)
    ELSE IF ~passwordOK THEN Outcome(NoAccessToken, ErrorBadCredentials, user)
    ELSE IssueAndStore(user, TokenOptions(GrantUnknown, 0, 0, FALSE),
                       signAccess, signRefresh, updateErr)

\* controller.Login: passwordOK is what VerifyPassword finds
ControllerLogin(user, passwordOK, signAccess, signRefresh, updateErr) ==
    IF ~user.exists THEN Outcome(NoAccessToken, ErrorUserNotFound, user)
    ELSE IF ~passwordOK THEN Outcome(NoAccessToken, ErrorBadCredentials, user)
    ELSE IssueAndStore(user, LoginOptions(user), signAccess, signRefresh,
                       updateErr)

\* controller.SetTotp: totpErr is what creating and encoding a new TOTP
\* answers, updateErr what db.UpdateTotp answers
ControllerSetTotp(user, enabled, totpErr, updateErr) ==
    IF ~user.exists THEN Outcome(FALSE, ErrorUserNotFound, user)
    ELSE IF enabled /\ ~user.Totp /\ totpErr # Nil
    THEN Outcome(FALSE, totpErr, user)
    ELSE IF updateErr # Nil THEN Outcome(FALSE, updateErr, user)
    ELSE Outcome(enabled, Nil,
                 [user EXCEPT !.TotpEnabled = enabled,
                              !.Totp = user.Totp \/ enabled])

\* controller.SignUp: userErr is what user.Valid() and HashPassword answer,
\* saveErr what db.SaveUser answers for an account not yet there; the result
\* of the closing c.SetTotp is dropped by the code
ControllerSignUp(user, totpEnabled, userErr, signAccess, signRefresh, saveErr, totpErr, updateErr) ==
    LET t == GenerateTokens(NilOptions, signAccess, signRefresh)
        saved == [exists |-> TRUE, TotpEnabled |-> totpEnabled, Totp |-> FALSE,
                  Token |-> t.tkn, RefreshToken |-> t.refreshTkn]
    IN  IF userErr # Nil THEN Outcome(NoAccessToken, userErr, user)
        ELSE IF t.err # Nil THEN Outcome(NoAccessToken, t.err, user)
        ELSE IF user.exists THEN Outcome(NoAccessToken, ErrUserExists, user)
        ELSE IF saveErr # Nil THEN Outcome(NoAccessToken, saveErr, user)
        ELSE Outcome([Token |-> t.tkn, RefreshToken |-> t.refreshTkn,
                      OtpRequired |-> totpEnabled],
                     Nil,
                     ControllerSetTotp(saved, totpEnabled, totpErr, updateErr).db)

\* controller.ValidateOtp: otpOK is what totp.Validate(otp) finds; an empty
\* stored secret does not decode to a TOTP
ControllerValidateOtp(user, otpOK, signAccess, signRefresh, updateErr) ==
    IF ~user.exists THEN Outcome(NoAccessToken, ErrorUserNotFound, user)
    ELSE IF ~user.Totp \/ ~otpOK THEN Outcome(NoAccessToken, ErrTotp, user)
    ELSE IssueAndStore(user, NilOptions, signAccess, signRefresh, updateErr)

\* controller.GetOtpQr
ControllerGetOtpQr(user) ==
    IF ~user.exists THEN Outcome(FALSE, ErrorUserNotFound, user)
    ELSE IF user.Totp THEN Outcome(TRUE, Nil, user)
    ELSE Outcome(FALSE, ErrorTotpNotFound, user)

\* RefreshToken that hands on the grant of the stored access token (a faulty
\* variant of ControllerRefreshToken)
ControllerRefreshToken_SameScope(user, signAccess, signRefresh, updateErr) ==
    IF ~user.exists THEN Outcome(NoAccessToken, ErrorUserNotFound, user)
    ELSE IssueAndStore(user,
                       TokenOptions((CHOOSE o \in ToGrant(user.Token[1].grant) :
                                        TRUE).grant, 0, 0, FALSE),
                       signAccess, signRefresh, updateErr)

\* controller.RefreshToken
ControllerRefreshToken(user, signAccess, signRefresh, updateErr) ==
    IF ~user.exists THEN Outcome(NoAccessToken, ErrorUserNotFound, user)
    ELSE IssueAndStore(user, NilOptions, signAccess, signRefresh, updateErr)

----------------------------------------------------------------------------
(* Calls in progress.  GrantStrings is a package-level map that no lock     *)
(* guards: a call of another goroutine can run between any two accesses of  *)
(* a call in progress.                                                      *)

\* No call in progress
Idle == [pc |-> "idle"]

\* The tables SetCustomGrants(grants) can leave when it starts from table
TablesAfter(table, grants) ==
    {r.table : r \in SetCustomGrantsResults(table, grants)}

----------------------------------------------------------------------------
(* Inputs *)

StrThis == <<"t", "h", "i", "s">>
StrThat == <<"t", "h", "a", "t">>
StrThose == <<"t", "h", "o", "s", "e">>

\* Names offered to SetCustomGrants: a plain name, a case variant of it, a
\* built-in name in another case, "unknown", and a name with a comma
NamePool ==
    { StrThis, <<"T", "H", "I", "S">>, <<"O", "t", "p">>,
      StrUnknown, <<"a", ",", "b">> }

SeqsUpTo(S, n) == UNION {[1..m -> S] : m \in 0..n}

ShortLists == SeqsUpTo(NamePool, MaxNames)

\* n distinct one-letter names
Filler(n) == [i \in 1..n |-> <<Lowers[i]>>]

\* Lists around the limit: nothing or one pool name, then 7, 8 or 9 fillers
LongLists ==
    {p \o Filler(n) : p \in SeqsUpTo(NamePool, 1),
                      n \in (MaxCustomGrants - 1)..(MaxCustomGrants + 1)}

ExampleLists == { <<StrThis, StrThat, StrThose>> }

NameLists == ShortLists \cup LongLists \cup ExampleLists

\* Registries the codec is exercised under: none, one and three custom names,
\* a full custom range, the names ToGrant cannot tell apart or parse, and
\* the empty name
CodecLists ==
    { <<>>, <<StrThis>>, <<StrThis, StrThat, StrThose>>, Filler(MaxCustomGrants),
      <<StrUnknown>>, <<StrThis, <<"a", ",", "b">>>>, << <<>> >>,
      Filler(MaxCustomGrants + 1) }

\* Bit positions grants are built from: the None bit, three named bits, an
\* unnamed bit of the OTP and of the users section, the first two and the
\* last custom bit, and the first and last reserved bit
SampleBits == {0, 1, 3, 4, 8, 9, 16, 17, 23, 24, 31}

GrantSample ==
    {g \in SUBSET SampleBits : Cardinality(g) <= MaxBits}
    \cup { GrantOTP, GrantAuthenticated, GrantFull, GrantMax,
           {0} \cup GrantSectionReserved,
           GrantAuthenticated \cup {16, 17, 18}, {16, 17, 18}, {16, 18},
           GrantAuthenticated \cup GrantSectionCustom,
           {1, 8, 16, 17, 18} }

\* Segments ToGrant inputs are built from: a built-in name, a built-in name
\* in another case inside whitespace, "unknown", a name of no grant, and a
\* name that is a grant only once registered
SegPool ==
    { StrSetOTP, <<" ", "O", "T", "P", "-", "Q", "R", "\t">>, StrUnknown,
      <<"a", "b", "c">>, StrThis }

ExampleStrings ==
    { Join(<<StrSetOTP, StrOTPValidate, StrOTPQR, StrUsersRefresh>>, GrantDelimiter),
      Join(<<StrSetOTP, StrUnknown, StrOTPQR>>, GrantDelimiter),
      Join(<<StrThis, StrThose>>, GrantDelimiter),
      Join(<<StrSetOTP, <<"a", "b", "c">>, StrUsersRefresh>>, GrantDelimiter),
      Join(<<<<"a", "b", "c">>, <<"d", "e", "f">>>>, GrantDelimiter),
      StrAuthenticated, StrOTP, StrNone }

StringInputs ==
    {Join(l, GrantDelimiter) : l \in SeqsUpTo(SegPool, MaxSegs)}
    \cup ExampleStrings

\* Bit positions the grants handed to String and Short are built from: the
\* None bit, a named bit of each built-in section, an unnamed users bit, a
\* custom bit every list registers, one only the longest lists register and a
\* reserved bit
FormatBits == {0, 1, 8, 9, 16, 19, 24}

\* Grants handed to String and Short: small sets of those bits and the values
\* of TestGrantString and TestGrantShort
FormatGrants ==
    {g \in SUBSET FormatBits : Cardinality(g) <= MaxBits}
    \cup { GrantOTPValidate, GrantOTP, GrantAuthenticated, GrantFull, GrantMax,
           {1, 3}, {4, 9}, {24, 31}, {17}, {16, 18}, {16, 17, 18},
           {1, 8, 16, 17, 18},
           GrantOTP \cup {16}, GrantAuthenticated \cup {19},
           GrantAuthenticated \cup {16, 17, 18} }

\* Grants ContainsGrant is asked for: those of TestContainsGrant, the other
\* atomic grants, no grant at all and registered custom bits
RequiredGrants ==
    { GrantUnknown, GrantNone, GrantSetOTP, GrantOTPValidate, GrantOTPQR,
      GrantOTP, GrantUsersRefresh, GrantAuthenticated, GrantFull,
      {16}, {16, 18}, GrantAuthenticated \cup {16} }

StringClaim(s) == [present |-> TRUE, isString |-> TRUE, val |-> s]

\* Values of the grant claim: none, one that is not a string, and strings:
\* those of TestContainsGrant, custom names, a name in other case with
\* blanks, a name no table holds alone and after a known one, the empty string
ClaimValues ==
    { [present |-> FALSE, isString |-> FALSE, val |-> <<>>],
      [present |-> TRUE, isString |-> FALSE, val |-> <<>>] }
    \cup { StringClaim(s) :
             s \in { StrAuthenticated, StrUsersRefresh, StrUnknown, StrThis, <<>>,
                     Join(<<StrSetOTP, StrOTPValidate, StrOTPQR, StrUsersRefresh>>,
                          GrantDelimiter),
                     Join(<<StrAuthenticated, StrThis, StrThat, StrThose>>,
                          GrantDelimiter),
                     <<" ", "O", "T", "P", "-", "A", "L", "L">>,
                     <<"a", "b", "c">>,
                     Join(<<StrSetOTP, <<"a", "b", "c">>>>, GrantDelimiter) } }

\* Names GetCustomGrant is limited to: two registered names of the example
\* list, one of them in another case, and a name never registered
FilterPool ==
    { StrThis, StrThat, <<"T", "H", "O", "S", "E">>, <<"n", "o", "t">> }

FilterInputs == SeqsUpTo(FilterPool, MaxFilter)

\* Options handed to GenerateTokens: none, the zero value, and grants of
\* TestGenerateTokens and of the login handlers with and without lifetimes
OptionGrants ==
    { GrantUnknown, GrantOTPValidate, GrantNone, GrantFull, {16},
      GrantAuthenticated \cup {19} }

OptionsInputs ==
    {NilOptions}
    \cup { TokenOptions(g, ttl, rttl, skip) :
             g \in OptionGrants, ttl \in {0, TransactionTokenExpiration},
             rttl \in {0, AccessTokenExpiration}, skip \in BOOLEAN }

\* What the signer can answer: success or an error of its own
ErrSign == Error(<<"ErrSign">>)

SignOutcomes == {Nil, ErrSign}

\* What the database and the TOTP library can answer
DbOutcomes == {Nil, ErrDatabase}

TotpOutcomes == {Nil, ErrTotp}

\* Registries the controller runs under
ControllerLists == {<<>>, <<StrThis>>, <<StrThat, StrThose>>, <<StrUnknown>>}

\* Lists handed to a SetCustomGrants that runs beside other calls
ConcurrentLists == {<<>>, <<StrThis>>, <<StrThat, StrThose>>}

----------------------------------------------------------------------------
(* Actions *)

NoCall == [op |-> "none"]

Init ==
    /\ GrantStrings = InitGrantStrings
    /\ call = NoCall
    /\ lastSet = <<>>
    /\ db = NoUser
    /\ setter = Idle
    /\ issuer = Idle

\* SetCustomGrants(grants)
SetCustomGrants(grants) ==
    \E r \in SetCustomGrantsResults(GrantStrings, grants) :
        /\ GrantStrings' = r.table
        /\ call' = [op |-> "SetCustomGrants", grants |-> grants, err |-> r.err]
        /\ lastSet' = IF r.err.nil THEN grants ELSE lastSet
        /\ UNCHANGED ctl

NextRegistry == \E grants \in NameLists : SetCustomGrants(grants)

SpecRegistry == Init /\ [][NextRegistry]_vars

\* g.Clean()
CleanCall(g) ==
    /\ call' = [op |-> "Clean", g |-> g, ret |-> Clean(g)]
    /\ UNCHANGED <<GrantStrings, lastSet, ctl>>

NextClean ==
    \/ \E grants \in CodecLists : SetCustomGrants(grants)
    \/ \E g \in GrantSample : CleanCall(g)

SpecClean == Init /\ [][NextClean]_vars

\* ToGrant(s)
ToGrantCall(s) ==
    /\ \E o \in ToGrant(s) :
          call' = [op |-> "ToGrant", s |-> s, grant |-> o.grant, err |-> o.err]
    /\ UNCHANGED <<GrantStrings, lastSet, ctl>>

NextToGrant ==
    \/ \E grants \in CodecLists : SetCustomGrants(grants)
    \/ \E s \in StringInputs : ToGrantCall(s)

SpecToGrant == Init /\ [][NextToGrant]_vars

\* ToGrant of the grant claim of an access token: GenerateTokens writes the
\* claim as grant.Clean().Short(), ContainsGrant hands it to ToGrant
NextToken ==
    \/ \E grants \in CodecLists : SetCustomGrants(grants)
    \/ \E g \in GrantSample : ToGrantCall(Short(Clean(g)))

SpecToken == Init /\ [][NextToken]_vars

\* GetCustomGrant(grant...)
GetCustomGrantCall(grant) ==
    /\ call' = [op |-> "GetCustomGrant", grant |-> grant,
                ret |-> GetCustomGrant(grant)]
    /\ UNCHANGED <<GrantStrings, lastSet, ctl>>

NextGetCustomGrant ==
    \/ \E grants \in CodecLists : SetCustomGrants(grants)
    \/ \E grant \in FilterInputs : GetCustomGrantCall(grant)

SpecGetCustomGrant == Init /\ [][NextGetCustomGrant]_vars

\* g.String()
StringCall(g) ==
    /\ call' = [op |-> "String", g |-> g, ret |-> String(g)]
    /\ UNCHANGED <<GrantStrings, lastSet, ctl>>

\* g.Short()
ShortCall(g) ==
    /\ call' = [op |-> "Short", g |-> g, ret |-> Short(g)]
    /\ UNCHANGED <<GrantStrings, lastSet, ctl>>

NextFormat ==
    \/ \E grants \in CodecLists : SetCustomGrants(grants)
    \/ \E g \in FormatGrants : StringCall(g)
    \/ \E g \in FormatGrants : ShortCall(g)

SpecFormat == Init /\ [][NextFormat]_vars

\* ToGrant(g.String())
StringToGrantCall(g) ==
    /\ \E o \in ToGrant(String(g)) :
          call' = [op |-> "StringToGrant", g |-> g, s |-> String(g),
                   grant |-> o.grant, err |-> o.err]
    /\ UNCHANGED <<GrantStrings, lastSet, ctl>>

NextStringToGrant ==
    \/ \E grants \in CodecLists : SetCustomGrants(grants)
    \/ \E g \in FormatGrants : StringToGrantCall(g)

SpecStringToGrant == Init /\ [][NextStringToGrant]_vars

\* ContainsGrant(grant, r)
ContainsGrantCall(grant, claim) ==
    /\ \E e \in ContainsGrantResults(grant, claim) :
          call' = [op |-> "ContainsGrant", grant |-> grant, claim |-> claim,
                   ret |-> e]
    /\ UNCHANGED <<GrantStrings, lastSet, ctl>>

NextContainsGrant ==
    \/ \E grants \in CodecLists : SetCustomGrants(grants)
    \/ \E grant \in RequiredGrants, claim \in ClaimValues :
          ContainsGrantCall(grant, claim)

SpecContainsGrant == Init /\ [][NextContainsGrant]_vars

\* ContainsGrant(g, r) for a request whose grant claim is g.String()
ContainsStringCall(g) ==
    /\ \E e \in ContainsGrantResults(g, StringClaim(String(g))) :
          call' = [op |-> "ContainsOwn", form |-> "String", g |-> g,
                   claim |-> String(g), ret |-> e]
    /\ UNCHANGED <<GrantStrings, lastSet, ctl>>

\* ContainsGrant(g, r) for a request whose grant claim is g.Short()
ContainsShortCall(g) ==
    /\ \E e \in ContainsGrantResults(g, StringClaim(Short(g))) :
          call' = [op |-> "ContainsOwn", form |-> "Short", g |-> g,
                   claim |-> Short(g), ret |-> e]
    /\ UNCHANGED <<GrantStrings, lastSet, ctl>>

NextContainsOwn ==
    \/ \E grants \in CodecLists : SetCustomGrants(grants)
    \/ \E g \in FormatGrants : ContainsStringCall(g)
    \/ \E g \in FormatGrants : ContainsShortCall(g)

SpecContainsOwn == Init /\ [][NextContainsOwn]_vars

\* GenerateTokens(user, pubKey, privKey, options)
GenerateTokensCall(options, signAccess, signRefresh) ==
    /\ call' = [op |-> "GenerateTokens", options |-> options,
                signAccess |-> signAccess, signRefresh |-> signRefresh,
                ret |-> GenerateTokens(options, signAccess, signRefresh)]
    /\ UNCHANGED <<GrantStrings, lastSet, ctl>>

NextGenerateTokens ==
    \/ \E grants \in CodecLists : SetCustomGrants(grants)
    \/ \E options \in OptionsInputs, signAccess, signRefresh \in SignOutcomes :
          GenerateTokensCall(options, signAccess, signRefresh)

SpecGenerateTokens == Init /\ [][NextGenerateTokens]_vars

\* The grant claim the middleware puts in the context of a request bearing
\* token t
BearerClaim(t) == StringClaim(t[1].grant)

\* The tokens a client of the account holds: those of the last issuance
Bearers == {db.Token, db.RefreshToken} \ {EmptyToken}

\* POST login: controller.Login
LoginCall(passwordOK, signAccess, signRefresh, updateErr) ==
    LET o == ControllerLogin(db, passwordOK, signAccess, signRefresh, updateErr)
    IN  /\ call' = [op |-> "Login", passwordOK |-> passwordOK,
                    found |-> db, ret |-> o.ret, err |-> o.err]
        /\ db' = o.db
        /\ UNCHANGED <<GrantStrings, lastSet, setter, issuer>>

\* POST signup: controller.SignUp for a user with the given totp_enabled
SignUpCall(totpEnabled, userErr, signAccess, signRefresh, saveErr, totpErr, updateErr) ==
    LET o == ControllerSignUp(db, totpEnabled, userErr, signAccess, signRefresh,
                              saveErr, totpErr, updateErr)
    IN  /\ call' = [op |-> "SignUp", totpEnabled |-> totpEnabled,
                    ret |-> o.ret, err |-> o.err]
        /\ db' = o.db
        /\ UNCHANGED <<GrantStrings, lastSet, setter, issuer>>

\* A handler that calls the controller without asking for the grant (a
\* faulty variant of Handle)
Handle_NoCheck(op, required, t, inputOK, o) ==
    IF ~inputOK
    THEN /\ call' = [op |-> op, bearer |-> t, status |-> "400",
                     invoked |-> FALSE, ret |-> FALSE, err |-> Nil]
         /\ UNCHANGED <<GrantStrings, lastSet, ctl>>
    ELSE /\ call' = [op |-> op, bearer |-> t,
                     status |-> IF o.err # Nil THEN "500" ELSE "200",
                     invoked |-> TRUE, ret |-> o.ret, err |-> o.err]
         /\ db' = o.db
         /\ UNCHANGED <<GrantStrings, lastSet, setter, issuer>>

\* A handler that asks for a grant before it calls the controller: the
\* request is answered with 403 when ContainsGrant returns an error, with 400
\* when its input cannot be read, with 500 when the controller returns an
\* error and with 200 otherwise
Handle(op, required, t, inputOK, o) ==
    \E e \in ContainsGrantResults(required, BearerClaim(t)) :
        IF e # Nil
        THEN /\ call' = [op |-> op, bearer |-> t, status |-> "403",
                         invoked |-> FALSE, ret |-> FALSE, err |-> e]
             /\ UNCHANGED <<GrantStrings, lastSet, ctl>>
        ELSE IF ~inputOK
        THEN /\ call' = [op |-> op, bearer |-> t, status |-> "400",
                         invoked |-> FALSE, ret |-> FALSE, err |-> Nil]
             /\ UNCHANGED <<GrantStrings, lastSet, ctl>>
        ELSE /\ call' = [op |-> op, bearer |-> t,
                         status |-> IF o.err # Nil THEN "500" ELSE "200",
                         invoked |-> TRUE, ret |-> o.ret, err |-> o.err]
             /\ db' = o.db
             /\ UNCHANGED <<GrantStrings, lastSet, setter, issuer>>

\* handlers.SetTotp
SetTotpHandler(t, bodyOK, enabled, totpErr, updateErr) ==
    Handle("SetTotp", GrantSetOTP, t, bodyOK,
           ControllerSetTotp(db, enabled, totpErr, updateErr))

\* handlers.ValidateOtp
ValidateOtpHandler(t, otpGiven, otpOK, signAccess, signRefresh, updateErr) ==
    Handle("ValidateOtp", GrantOTPValidate, t, otpGiven,
           ControllerValidateOtp(db, otpOK, signAccess, signRefresh, updateErr))

\* handlers.GetOtpQr
GetOtpQrHandler(t) ==
    Handle("GetOtpQr", GrantOTPQR, t, TRUE, ControllerGetOtpQr(db))

\* handlers.RefreshToken
RefreshTokenHandler(t, signAccess, signRefresh, updateErr) ==
    Handle("RefreshToken", GrantUsersRefresh, t, TRUE,
           ControllerRefreshToken(db, signAccess, signRefresh, updateErr))

NextController ==
    \/ \E grants \in ControllerLists : SetCustomGrants(grants)
    \/ \E passwordOK \in BOOLEAN, signAccess, signRefresh \in SignOutcomes,
          updateErr \in DbOutcomes :
          LoginCall(passwordOK, signAccess, signRefresh, updateErr)
    \/ \E totpEnabled \in BOOLEAN, userErr \in {Nil, ErrInvalidUser},
          signAccess, signRefresh \in SignOutcomes, saveErr \in DbOutcomes,
          totpErr \in TotpOutcomes, updateErr \in DbOutcomes :
          SignUpCall(totpEnabled, userErr, signAccess, signRefresh, saveErr,
                     totpErr, updateErr)
    \/ \E t \in Bearers, bodyOK, enabled \in BOOLEAN, totpErr \in TotpOutcomes,
          updateErr \in DbOutcomes :
          SetTotpHandler(t, bodyOK, enabled, totpErr, updateErr)
    \/ \E t \in Bearers, otpGiven, otpOK \in BOOLEAN,
          signAccess, signRefresh \in SignOutcomes, updateErr \in DbOutcomes :
          ValidateOtpHandler(t, otpGiven, otpOK, signAccess, signRefresh,
                             updateErr)
    \/ \E t \in Bearers : GetOtpQrHandler(t)
    \/ \E t \in Bearers, signAccess, signRefresh \in SignOutcomes,
          updateErr \in DbOutcomes :
          RefreshTokenHandler(t, signAccess, signRefresh, updateErr)

SpecController == Init /\ [][NextController]_vars

\* SetCustomGrants(grants) up to its first loop: the length check; old is
\* history, the table the call started from
SetBegin(grants) ==
    /\ setter.pc = "idle"
    /\ IF Len(grants) > MaxCustomGrants
       THEN /\ call' = [op |-> "SetCustomGrants", grants |-> grants,
                        err |-> ErrTooManyGrants(Len(grants))]
            /\ UNCHANGED <<setter, issuer>>
       ELSE /\ setter' = [pc |-> IF GetCustomGrant(<<>>) = {} THEN "insert"
                                 ELSE "delete",
                          grants |-> grants, old |-> GrantStrings, i |-> 0,
                          n |-> 1]
            /\ issuer' = IF issuer.pc = "idle" THEN issuer
                         ELSE [issuer EXCEPT !.tables =
                                 @ \cup TablesAfter(GrantStrings, grants)]
            /\ UNCHANGED call
    /\ UNCHANGED <<GrantStrings, lastSet, db>>

\* One round of the first loop: a custom entry, whichever the map range
\* comes to, is deleted
SetDeleteStep ==
    /\ setter.pc = "delete"
    /\ \E k \in {x \in DOMAIN GrantStrings : x \cap GrantSectionCustom # {}} :
          LET table == [x \in DOMAIN GrantStrings \ {k} |-> GrantStrings[x]]
          IN  /\ GrantStrings' = table
              /\ setter' = [setter EXCEPT !.pc =
                              IF \E x \in DOMAIN table :
                                     x \cap GrantSectionCustom # {}
                              THEN "delete" ELSE "insert"]
    /\ UNCHANGED <<call, lastSet, db, issuer>>

\* One round of the second loop, for grants[n]; i counts the names taken
SetInsertStep ==
    /\ setter.pc = "insert"
    /\ setter.n <= Len(setter.grants)
    /\ LET g == setter.grants[setter.n]
           v == {15 + (setter.i + 1)} \cap GrantSectionCustom
       IN  \E o \in ToGrantIn(GrantStrings, g) :
               IF o.grant = GrantUnknown
               THEN /\ GrantStrings' = (v :> g) @@ GrantStrings
                    /\ setter' = [setter EXCEPT !.i = @ + 1, !.n = @ + 1]
               ELSE /\ GrantStrings' = GrantStrings
                    /\ setter' = [setter EXCEPT !.n = @ + 1]
    /\ UNCHANGED <<call, lastSet, db, issuer>>

\* SetCustomGrants returns nil
SetReturn ==
    /\ setter.pc = "insert"
    /\ setter.n > Len(setter.grants)
    /\ call' = [op |-> "SetCustomGrants", grants |-> setter.grants, err |-> Nil]
    /\ lastSet' = setter.grants
    /\ setter' = Idle
    /\ UNCHANGED <<GrantStrings, db, issuer>>

\* GenerateTokens(user, pubKey, privKey, nil) up to IsCustomGrantsSet();
\* tables is history: the complete tables of the registry during the call
IssueBegin ==
    /\ issuer.pc = "idle"
    /\ setter.pc # "fatal"
    /\ issuer' = [pc |-> IF IsCustomGrantsSet THEN "custom" ELSE "clean",
                  grant |-> GrantAuthenticated,
                  tables |-> IF setter.pc = "idle" THEN {GrantStrings}
                             ELSE {setter.old}
                                  \cup TablesAfter(setter.old, setter.grants)]
    /\ UNCHANGED <<GrantStrings, call, lastSet, db, setter>>

\* grant |= grants.GetCustomGrant()
IssueGetCustom ==
    /\ issuer.pc = "custom"
    /\ setter.pc # "fatal"
    /\ issuer' = [issuer EXCEPT !.pc = "clean",
                                !.grant = @ \cup GetCustomGrant(<<>>)]
    /\ UNCHANGED <<GrantStrings, call, lastSet, db, setter>>

\* grant.Clean()
IssueClean ==
    /\ issuer.pc = "clean"
    /\ setter.pc # "fatal"
    /\ issuer' = [issuer EXCEPT !.pc = "short", !.grant = Clean(@)]
    /\ UNCHANGED <<GrantStrings, call, lastSet, db, setter>>

\* .Short(), the two signatures and the return
IssueShort(signAccess, signRefresh) ==
    /\ issuer.pc = "short"
    /\ setter.pc # "fatal"
    /\ LET access == Sign([grant |-> Short(issuer.grant),
                           exp |-> AccessTokenExpiration], signAccess)
           refresh == Sign(RefreshClaims(NilOptions), signRefresh)
           ret == IF access.err # Nil
                  THEN [tkn |-> EmptyToken, refreshTkn |-> EmptyToken,
                        err |-> access.err]
                  ELSE IF refresh.err # Nil
                  THEN [tkn |-> EmptyToken, refreshTkn |-> EmptyToken,
                        err |-> refresh.err]
                  ELSE [tkn |-> access.tkn, refreshTkn |-> refresh.tkn,
                        err |-> Nil]
       IN  call' = [op |-> "GenerateTokens", options |-> NilOptions,
                    signAccess |-> signAccess, signRefresh |-> signRefresh,
                    ret |-> ret, tables |-> issuer.tables]
    /\ issuer' = Idle
    /\ UNCHANGED <<GrantStrings, lastSet, db, setter>>

\* A read of another goroutine while SetCustomGrants is in progress
ReadDuring(grant) ==
    /\ setter.pc \in {"delete", "insert"}
    /\ GetCustomGrantCall(grant)

\* An access of the map that overlaps a write of SetCustomGrants is a data
\* race: the runtime may end the program ("concurrent map read and map
\* write")
RaceFatal ==
    /\ setter.pc \in {"delete", "insert"}
    /\ setter' = [pc |-> "fatal"]
    /\ call' = [op |-> "fatal"]
    /\ UNCHANGED <<GrantStrings, lastSet, db, issuer>>

NextConcurrent ==
    \/ \E grants \in ConcurrentLists \cup {Filler(MaxCustomGrants + 1)} :
          SetBegin(grants)
    \/ SetDeleteStep
    \/ SetInsertStep
    \/ SetReturn
    \/ IssueBegin
    \/ IssueGetCustom
    \/ IssueClean
    \/ \E signAccess, signRefresh \in SignOutcomes :
          IssueShort(signAccess, signRefresh)
    \/ \E grant \in {<<>>, <<StrThat>>} : ReadDuring(grant)
    \/ RaceFatal

SpecConcurrent == Init /\ [][NextConcurrent]_vars

\* ToGrant(g.Short()) and ToGrant(g.String())
BothFormsCall(g) ==
    /\ \E a \in ToGrant(Short(g)), b \in ToGrant(String(g)) :
          call' = [op |-> "BothForms", g |-> g,
                   short |-> Short(g), ofShort |-> a,
                   string |-> String(g), ofString |-> b]
    /\ UNCHANGED <<GrantStrings, lastSet, ctl>>

NextBothForms ==
    \/ \E grants \in CodecLists : SetCustomGrants(grants)
    \/ \E g \in FormatGrants : BothFormsCall(g)

SpecBothForms == Init /\ [][NextBothForms]_vars

\* ContainsGrant(grant, r) for a request bearing the access token issued
\* last, which tokens issued with default options only
NextStale ==
    \/ \E grants \in ControllerLists : SetCustomGrants(grants)
    \/ \E signAccess, signRefresh \in SignOutcomes :
          SignUpCall(FALSE, Nil, signAccess, signRefresh, Nil, Nil, Nil)
    \/ \E t \in Bearers, signAccess, signRefresh \in SignOutcomes :
          RefreshTokenHandler(t, signAccess, signRefresh, Nil)
    \/ \E grant \in RequiredGrants :
          /\ db.Token # EmptyToken
          /\ ContainsGrantCall(grant, BearerClaim(db.Token))

SpecStale == Init /\ [][NextStale]_vars

----------------------------------------------------------------------------
(* Properties *)

\* The custom-range keys of the table
CustomKeys == {k \in DOMAIN GrantStrings : k \cap GrantSectionCustom # {}}

\* The keys whose name a segment matches, trimmed and without regard to case
Matching(seg) ==
    {k \in DOMAIN GrantStrings : EqualFold(TrimSpace(seg), GrantStrings[k])}

\* s is one of the eight names the package starts with, in any case
IsBuiltinName(s) ==
    \E k \in DOMAIN InitGrantStrings : EqualFold(s, InitGrantStrings[k])

\* a can be had from b by dropping elements
RECURSIVE IsSubseq(_, _)
IsSubseq(a, b) ==
    \/ a = <<>>
    \/ /\ b # <<>>
       /\ IF Head(a) = Head(b) THEN IsSubseq(Tail(a), Tail(b))
          ELSE IsSubseq(a, Tail(b))

StrThisThatThose == <<StrThis, StrThat, StrThose>>

\* C1: the grant claim of an access token decodes to the grant encoded: for
\* every registry and every g, ToGrant(g.Clean().Short()) returns g.Clean()
\* and a nil error.
C1_TokenRoundTrip ==
    call.op = "ToGrant" =>
        \A g \in GrantSample :
            call.s = Short(Clean(g)) =>
                (call.err = Nil /\ call.grant = Clean(g))

\* C2: Clean never adds privilege: no bit of g.Clean() is a bit g lacks, so
\* the result is GrantNone (only for a g with bit 0) or a part of g.
C2_CleanNeverAdds ==
    call.op = "Clean" =>
        /\ call.ret \cap ((0..31) \ call.g) = {}
        /\ (call.ret = GrantNone /\ 0 \in call.g) \/ call.ret \subseteq call.g

C2_Witness ==
    /\ call.op = "Clean"
    /\ CustomKeys # {}
    /\ call.g = GrantFull
    /\ call.ret = GrantAuthenticated \cup GrantSectionCustom

\* C3: a g with the None bit cleans to GrantNone whatever else is set; any
\* other g cleans to g & GrantAuthenticated with no custom grant registered
\* and to g & (GrantAuthenticated | 0x00FF0000) with one registered; bits
\* 24-31 are always cleared.
C3_CleanResult ==
    call.op = "Clean" =>
        /\ 0 \in call.g => call.ret = GrantNone
        /\ (0 \notin call.g /\ CustomKeys = {}) =>
               call.ret = call.g \cap {1, 2, 3, 8}
        /\ (0 \notin call.g /\ CustomKeys # {}) =>
               call.ret = call.g \cap ({1, 2, 3, 8} \cup (16..23))
        /\ call.ret \cap (24..31) = {}
        /\ (call.g = 1..31 /\ CustomKeys = {}) => call.ret = {1, 2, 3, 8}
        /\ call.g = 0..31 => call.ret = {0}
        /\ call.g = {0} \cup (24..31) => call.ret = {0}

C3_Witness ==
    /\ call.op = "Clean"
    /\ CustomKeys # {}
    /\ call.g = GrantMax
    /\ call.ret = GrantNone

\* C4: Clean is idempotent under a fixed registry: g.Clean().Clean() is
\* g.Clean().
C4_CleanIdempotent ==
    call.op = "Clean" => Clean(call.ret) = call.ret

C4_Witness ==
    /\ call.op = "Clean"
    /\ CustomKeys # {}
    /\ call.ret # call.g
    /\ call.ret \cap GrantSectionCustom # {}
    /\ call.ret \cap GrantAuthenticated # {}

\* C5: for a g without the None bit, every bit of g.Clean() has a name now:
\* SetOTP, OTPValidate, OTPQR, UsersRefresh or a registered custom bit; a
\* custom-range bit no registered grant occupies is dropped.
C5_CleanDropsUndefined ==
    (call.op = "Clean" /\ 0 \notin call.g) =>
        \A b \in call.ret :
            {b} \in {GrantSetOTP, GrantOTPValidate, GrantOTPQR, GrantUsersRefresh}
                      \cup CustomKeys

\* C6: when every comma-separated segment of s, trimmed, matches a name of
\* the table without regard to case, ToGrant(s) returns a nil error and the
\* OR of the matched values.
C6_ToGrantSuccess ==
    call.op = "ToGrant" =>
        LET parts == Split(call.s, ",")
            n == Len(parts)
        IN  /\ (\A i \in 1..n : Matching(parts[i]) # {}) =>
                  /\ call.err = Nil
                  /\ \E f \in [1..n -> UNION {Matching(parts[i]) : i \in 1..n}] :
                        /\ \A i \in 1..n : f[i] \in Matching(parts[i])
                        /\ call.grant = UNION {f[i] : i \in 1..n}
            /\ call.s = Join(<<StrSetOTP, StrOTPValidate, StrOTPQR,
                                StrUsersRefresh>>, ",") =>
                  (call.err = Nil /\ call.grant = GrantAuthenticated)
            /\ (call.s = Join(<<StrSetOTP, StrUnknown, StrOTPQR>>, ",")
                   /\ CustomKeys = {}) =>
                  (call.err = Nil /\ call.grant = {1, 3})
            /\ (call.s = Join(<<StrThis, StrThose>>, ",")
                   /\ lastSet = StrThisThatThose) =>
                  (call.err = Nil /\ call.grant = {16, 18})
            /\ call.s = <<"o", "t", "p", ",", " ", "O", "T", "P", "-", "Q", "R", "\t">> =>
                  (call.err = Nil /\ call.grant = {1, 3})

C6_Witness ==
    /\ call.op = "ToGrant"
    /\ lastSet = StrThisThatThose
    /\ call.s = Join(<<StrThis, StrThose>>, ",")
    /\ call.err = Nil
    /\ call.grant = {16, 18}

\* C7: when a segment of s matches no name, ToGrant returns GrantUnknown,
\* not the OR of the segments matched before it, and the error
\* "Unknown grant '<p>'" for the first such segment p, trimmed.
C7_ToGrantFailsClosed ==
    call.op = "ToGrant" =>
        LET parts == Split(call.s, ",")
            bad == {i \in 1..Len(parts) : Matching(parts[i]) = {}}
            abc == <<"U", "n", "k", "n", "o", "w", "n", " ", "g", "r", "a", "n",
                     "t", " ", "'", "a", "b", "c", "'">>
        IN  /\ bad # {} =>
                  LET first == CHOOSE i \in bad : \A j \in bad : i <= j
                  IN  /\ call.grant = GrantUnknown
                      /\ ~call.err.nil
                      /\ call.err.msg =
                            <<"U", "n", "k", "n", "o", "w", "n", " ",
                              "g", "r", "a", "n", "t", " ", "'">>
                            \o TrimSpace(parts[first]) \o <<"'">>
            /\ call.s = <<"o", "t", "p", ",", "a", "b", "c", ",", "u", "s", "e",
                          "r", "s", "-", "r", "e", "f", "r", "e", "s", "h">> =>
                  (call.grant = {} /\ ~call.err.nil /\ call.err.msg = abc)
            /\ call.s = <<"a", "b", "c", ",", "d", "e", "f">> =>
                  (call.grant = {} /\ ~call.err.nil /\ call.err.msg = abc)

C7_Witness ==
    /\ call.op = "ToGrant"
    /\ call.s = Join(<<StrSetOTP, <<"a", "b", "c">>, StrUsersRefresh>>, ",")
    /\ call.grant = GrantUnknown
    /\ ~call.err.nil

\* C8: SetCustomGrants(names) with more than 8 names, skipped ones counted,
\* returns an error and leaves the table as it was; with 8 or fewer it
\* returns nil.
C8_SetCustomGrantsLimit ==
    [][call'.op = "SetCustomGrants" =>
          IF Len(call'.grants) > 8
          THEN ~call'.err.nil /\ GrantStrings' = GrantStrings
          ELSE call'.err = Nil]_vars

C8_Witness ==
    /\ call.op = "SetCustomGrants"
    /\ call.grants = <<<<"O", "t", "p">>>> \o Filler(8)
    /\ ~call.err.nil
    /\ CustomKeys # {}

\* C9: the custom entries are those of the last successful SetCustomGrants:
\* its accepted names on bits 16, 17, ... in input order without a gap, at
\* most 8, none of an earlier call; a name repeated in the list, compared
\* without regard to case, is accepted once and takes no second bit.
C9_RegistryReplacement ==
    LET n == Cardinality(CustomKeys)
    IN  /\ n <= 8
        /\ CustomKeys = {{15 + j} : j \in 1..n}
        /\ LET names == [j \in 1..n |-> GrantStrings[{15 + j}]]
           IN  /\ IsSubseq(names, lastSet)
               /\ \A i, j \in 1..n :
                     i # j => ~EqualFold(names[i], names[j])

\* C10: SetCustomGrants gives no custom bit to a name that is a built-in
\* name in any case ('unknown', 'none', 'otp', 'otp-validate', 'otp-qr',
\* 'users-refresh', 'otp-all', 'authenticated'), and such a name takes no
\* bit slot: the first name that is not built-in sits on bit 16.
C10_BuiltinNamesSkipped ==
    (call.op = "SetCustomGrants" /\ call.err.nil) =>
        LET kept == SelectSeq(call.grants, LAMBDA s : ~IsBuiltinName(s))
        IN  /\ \A k \in CustomKeys : ~IsBuiltinName(GrantStrings[k])
            /\ kept # <<>> =>
                  ({16} \in CustomKeys /\ GrantStrings[{16}] = kept[1])

\* C11: the table holds one name per Grant value and no two entries carry
\* the same name, compared without regard to case, so a name identifies at
\* most one Grant value.
C11_BidirectionalTable ==
    \A k1, k2 \in DOMAIN GrantStrings :
        k1 # k2 => ~EqualFold(GrantStrings[k1], GrantStrings[k2])

\* C12: GetCustomGrant() is the OR of all registered custom bits, GrantUnknown
\* with none registered; GetCustomGrant(f1, ..., fn) is the OR of the
\* registered custom bits whose name is some fi without regard to case;
\* entries of the filter that match nothing are ignored and no bit outside
\* the custom range is returned.
C12_GetCustomGrant ==
    call.op = "GetCustomGrant" =>
        LET f == call.grant
        IN  /\ Len(f) = 0 => call.ret = UNION CustomKeys
            /\ Len(f) > 0 =>
                  call.ret = UNION {k \in CustomKeys :
                                      \E i \in 1..Len(f) :
                                          EqualFold(GrantStrings[k], f[i])}
            /\ call.ret \subseteq 16..23
            /\ CustomKeys = {} => call.ret = {}
            /\ lastSet = StrThisThatThose =>
                  /\ f = <<>> => call.ret = {16, 17, 18}
                  /\ f = <<StrThis, <<"T", "H", "O", "S", "E">>>> =>
                        call.ret = {16, 18}
                  /\ f = <<StrThat>> => call.ret = {17}
                  /\ f = <<<<"n", "o", "t">>>> => call.ret = {}
                  /\ f = <<<<"n", "o", "t">>, StrThat>> => call.ret = {17}

C12_Witness ==
    /\ call.op = "GetCustomGrant"
    /\ lastSet = StrThisThatThose
    /\ call.grant = <<StrThis, <<"T", "H", "O", "S", "E">>>>
    /\ call.ret = {16, 18}

\* Bit positions that carry a name of their own: the five built-in atomic
\* grants and the registered custom bits
NamedBits ==
    {0, 1, 2, 3, 8} \cup {i \in 16..23 : {i} \in DOMAIN GrantStrings}

Lowest(bits) == CHOOSE i \in bits : \A j \in bits : i <= j

RECURSIVE NamesAsc(_)
NamesAsc(bits) ==
    IF bits = {} THEN <<>>
    ELSE <<GrantStrings[{Lowest(bits)}]>> \o NamesAsc(bits \ {Lowest(bits)})

StrAtomicAuthenticated ==
    Join(<<StrSetOTP, StrOTPValidate, StrOTPQR, StrUsersRefresh>>, GrantDelimiter)

\* C13: g.String() is the names of the set bits that have a name of their own
\* (None, SetOTP, OTPValidate, OTPQR, UsersRefresh, registered custom bits), in
\* ascending bit order, joined by ","; composite names are never used, other
\* set bits are omitted, and the result is "unknown" when no set bit has a
\* name.
C13_String ==
    call.op = "String" =>
        LET g == call.g
        IN  /\ g \cap NamedBits = {} => call.ret = StrUnknown
            /\ g \cap NamedBits # {} =>
                  call.ret = Join(NamesAsc(g \cap NamedBits), GrantDelimiter)
            /\ g = GrantAuthenticated => call.ret = StrAtomicAuthenticated
            /\ g = GrantOTP =>
                  call.ret = Join(<<StrSetOTP, StrOTPValidate, StrOTPQR>>,
                                  GrantDelimiter)
            /\ g = {4, 9} => call.ret = StrUnknown
            /\ g = {24, 31} => call.ret = StrUnknown
            /\ lastSet = StrThisThatThose =>
                  /\ g = {19} => call.ret = StrUnknown
                  /\ g = {16, 18} =>
                        call.ret = Join(<<StrThis, StrThose>>, GrantDelimiter)
                  /\ g = GrantAuthenticated \cup {19} =>
                        call.ret = StrAtomicAuthenticated

C13_Witness ==
    /\ call.op = "String"
    /\ lastSet = StrThisThatThose
    /\ call.g = {19}
    /\ call.ret = StrUnknown

\* The names of the individually named set bits of g in ascending order,
\* "unknown" when there are none
AtomicForm(g) ==
    IF g \cap NamedBits = {} THEN StrUnknown
    ELSE Join(NamesAsc(g \cap NamedBits), GrantDelimiter)

\* The name Short uses for the low 16 bits: the table entry of the value
\* when it has one, else the names of its bits
LowForm(low) ==
    IF low \in DOMAIN GrantStrings THEN GrantStrings[low] ELSE AtomicForm(low)

C15_StringReversible ==
    (call.op = "StringToGrant" /\ call.g \subseteq NamedBits) =>
        /\ call.err.nil
        /\ call.grant = call.g

\* The values ToGrant can return for segments that all match: one matching
\* key for each segment, OR'ed
Parses(parts) ==
    LET n == Len(parts)
    IN  { UNION {f[i] : i \in 1..n} :
            f \in {h \in [1..n -> UNION {Matching(parts[i]) : i \in 1..n}] :
                      \A i \in 1..n : h[i] \in Matching(parts[i])} }

\* C16: ContainsGrant(required, r) returns nil exactly when the grant claim
\* of r is a string that ToGrant parses without error to a grant holding
\* every required bit; it returns the grant-data-type error when the claim is
\* absent or not a string, ToGrant's error when a segment is unknown, and
\* ErrRequestGrant when the parsed grant lacks a required bit.
C16_ContainsGrant ==
    call.op = "ContainsGrant" =>
        LET c == call.claim
            req == call.grant
            isStr == c.present /\ c.isString
            parts == Split(c.val, ",")
            bad == {i \in 1..Len(parts) : Matching(parts[i]) = {}}
        IN  /\ ~isStr => call.ret = ErrGrantDataType
            /\ (isStr /\ bad # {}) =>
                  call.ret = ErrUnknownGrant(TrimSpace(parts[Lowest(bad)]))
            /\ (isStr /\ bad = {}) =>
                  \E parsed \in Parses(parts) :
                      call.ret = IF (parsed \cap req) = req THEN Nil
                                 ELSE ErrRequestGrant
            /\ call.ret = Nil =>
                  /\ isStr /\ bad = {}
                  /\ \E parsed \in Parses(parts) : req \subseteq parsed
            /\ call.ret \in {Nil, ErrRequestGrant, ErrGrantDataType}
                  \/ (isStr /\ bad # {})
            /\ c.val \in {StrAuthenticated, StrAtomicAuthenticated} =>
                  /\ req \in {GrantOTP, GrantOTPValidate, GrantUsersRefresh,
                               GrantAuthenticated} => call.ret = Nil
                  /\ req = GrantFull => call.ret = ErrRequestGrant
            /\ c.val = StrUsersRefresh =>
                  /\ req = GrantUsersRefresh => call.ret = Nil
                  /\ req \in {GrantOTP, GrantOTPValidate, GrantAuthenticated,
                               GrantFull} => call.ret = ErrRequestGrant

C16_Witness ==
    /\ call.op = "ContainsGrant"
    /\ call.claim = StringClaim(StrAuthenticated)
    /\ call.grant = GrantFull
    /\ call.ret = ErrRequestGrant

C18_AccessGrantClaim ==
    (call.op = "GenerateTokens" /\ call.ret.tkn # EmptyToken) =>
        LET o == call.options
            E == IF ~o.nil /\ o.Grant # {} THEN o.Grant
                 ELSE {1, 2, 3, 8} \cup UNION CustomKeys
            claim == call.ret.tkn[1].grant
        IN  /\ Len(call.ret.tkn) = 1
            /\ claim = Short(Clean(E))
            /\ (o.nil \/ o.Grant = {}) =>
                  /\ CustomKeys = {} => claim = StrAuthenticated
                  /\ lastSet = StrThisThatThose =>
                        claim = Join(<<StrAuthenticated, StrThis, StrThat,
                                       StrThose>>, GrantDelimiter)
            /\ (~o.nil /\ o.Grant = GrantOTPValidate) => claim = StrOTPValidate
            /\ (~o.nil /\ o.Grant = GrantFull /\ CustomKeys = {}) =>
                  claim = StrAuthenticated

C18_Witness ==
    /\ call.op = "GenerateTokens"
    /\ lastSet = StrThisThatThose
    /\ call.options = TokenOptions(GrantUnknown, 0, 0, FALSE)
    /\ call.ret.err = Nil
    /\ call.ret.tkn[1].grant =
          Join(<<StrAuthenticated, StrThis, StrThat, StrThose>>, GrantDelimiter)

\* C19: when GenerateTokens succeeds, the refresh token is the empty string
\* exactly when options is non-nil with SkipRefresh set; otherwise it is a
\* token whose grant claim is exactly "users-refresh", whatever options.Grant
\* and the registry are, so that ContainsGrant accepts it for
\* GrantUsersRefresh and rejects it for GrantSetOTP, GrantOTPValidate and
\* GrantOTPQR.
C19_RefreshGrantClaim ==
    (call.op = "GenerateTokens" /\ call.ret.err = Nil) =>
        LET o == call.options
            refreshTkn == call.ret.refreshTkn
        IN  /\ refreshTkn = EmptyToken <=> (~o.nil /\ o.SkipRefresh)
            /\ refreshTkn # EmptyToken =>
                  LET claim == StringClaim(refreshTkn[1].grant)
                  IN  /\ Len(refreshTkn) = 1
                      /\ refreshTkn[1].grant = StrUsersRefresh
                      /\ ContainsGrantResults(GrantUsersRefresh, claim) = {Nil}
                      /\ \A g \in {GrantSetOTP, GrantOTPValidate, GrantOTPQR} :
                            ContainsGrantResults(g, claim) = {ErrRequestGrant}

C19_Witness ==
    /\ call.op = "GenerateTokens"
    /\ lastSet = StrThisThatThose
    /\ call.options = TokenOptions(GrantFull, 0, 0, FALSE)
    /\ call.ret.err = Nil
    /\ call.ret.refreshTkn = <<[grant |-> StrUsersRefresh,
                                exp |-> RefreshTokenExpiration]>>

\* C20: when the signer fails at either step of GenerateTokens, the signer's
\* error is returned with two empty strings; an access token already signed
\* is not returned when signing the refresh token fails.
C20_NoPartialIssuance ==
    call.op = "GenerateTokens" =>
        LET o == call.options
            ret == call.ret
            refreshes == o.nil \/ ~o.SkipRefresh
        IN  /\ call.signAccess # Nil =>
                  ret = [tkn |-> <<>>, refreshTkn |-> <<>>,
                         err |-> call.signAccess]
            /\ (call.signAccess = Nil /\ refreshes /\ call.signRefresh # Nil) =>
                  ret = [tkn |-> <<>>, refreshTkn |-> <<>>,
                         err |-> call.signRefresh]
            /\ ret.err # Nil => (ret.tkn = <<>> /\ ret.refreshTkn = <<>>)
            /\ ret.err = Nil <=>
                  (call.signAccess = Nil /\ (refreshes => call.signRefresh = Nil))
            /\ ret.err = Nil => ret.tkn # <<>>

C20_Witness ==
    /\ call.op = "GenerateTokens"
    /\ call.signAccess = Nil
    /\ call.signRefresh = ErrSign
    /\ call.options = NilOptions
    /\ call.ret = [tkn |-> <<>>, refreshTkn |-> <<>>, err |-> ErrSign]

\* C21: after a successful password check, Login issues for an account with
\* TotpEnabled an access token whose grant is exactly OTPValidate with the
\* 5-minute lifetime and an empty refresh token, and for an account without
\* it an access token carrying Authenticated plus all registered custom
\* grants with the 1-hour lifetime and a refresh token whose grant is exactly
\* UsersRefresh; OtpRequired equals TotpEnabled.
C21_LoginPolicy ==
    (call.op = "Login" /\ call.err = Nil) =>
        LET user == call.found
            ret == call.ret
        IN  /\ user.exists /\ call.passwordOK
            /\ ret.OtpRequired = user.TotpEnabled
            /\ user.TotpEnabled =>
                  /\ ret.Token = <<[grant |-> StrOTPValidate, exp |-> 5]>>
                  /\ ret.RefreshToken = <<>>
            /\ ~user.TotpEnabled =>
                  /\ Len(ret.Token) = 1
                  /\ ret.Token[1].grant =
                        Short(Clean({1, 2, 3, 8} \cup UNION CustomKeys))
                  /\ ret.Token[1].exp = 60
                  /\ ret.RefreshToken =
                        <<[grant |-> StrUsersRefresh, exp |-> 1440]>>
                  /\ CustomKeys = {} => ret.Token[1].grant = StrAuthenticated
                  /\ lastSet = <<StrThat, StrThose>> =>
                        ret.Token[1].grant =
                          Join(<<StrAuthenticated, StrThat, StrThose>>,
                               GrantDelimiter)

C21_Witness ==
    /\ call.op = "Login"
    /\ call.err = Nil
    /\ call.found.TotpEnabled
    /\ call.ret = [Token |-> <<[grant |-> StrOTPValidate, exp |-> 5]>>,
                   RefreshToken |-> <<>>, OtpRequired |-> TRUE]

\* C22: a request bearing the OTPValidate-only access token that Login issues
\* for a TOTP-enabled account is rejected by the RefreshToken, SetTotp and
\* GetOtpQr handlers before their controller operation is invoked and is
\* accepted only by the ValidateOtp handler, and that Login returns no
\* refresh token.
C22_TransactionalNotRefreshable ==
    /\ (/\ call.op \in {"RefreshToken", "SetTotp", "GetOtpQr"}
        /\ call.bearer[1].grant = StrOTPValidate) =>
           /\ call.status = "403"
           /\ ~call.invoked
           /\ call.err = ErrRequestGrant
    /\ (call.op = "ValidateOtp" /\ call.bearer[1].grant = StrOTPValidate) =>
           /\ call.status # "403"
           /\ call.status \in {"200", "500"} <=> call.invoked
    /\ (call.op = "Login" /\ call.err = Nil /\ call.found.TotpEnabled) =>
           /\ call.ret.Token[1].grant = StrOTPValidate
           /\ call.ret.RefreshToken = <<>>
           /\ db.RefreshToken = <<>>

C22_Witness ==
    /\ call.op = "RefreshToken"
    /\ call.bearer = <<[grant |-> StrOTPValidate, exp |-> 5]>>
    /\ call.status = "403"
    /\ db.TotpEnabled

\* What GetCustomGrant(f...) returns when it reads the whole of table
CustomGrantIn(table, f) ==
    UNION {k \in DOMAIN table :
             /\ k \cap (16..23) # {}
             /\ Len(f) = 0 \/ \E i \in 1..Len(f) : EqualFold(table[k], f[i])}

\* C23: a read that runs while SetCustomGrants(new) is in progress sees the
\* complete table as it was before that call or the complete table after it:
\* what GetCustomGrant returns is what it returns on one of the two.
C23_NoPartialUpdate ==
    (call.op = "GetCustomGrant" /\ setter.pc \in {"delete", "insert"}) =>
        \E table \in {setter.old} \cup TablesAfter(setter.old, setter.grants) :
            call.ret = CustomGrantIn(table, call.grant)

\* The custom names of the table are well-formed: not empty, without ",",
\* without leading or trailing whitespace, and not a built-in name
WellFormedNames ==
    \A k \in CustomKeys :
        LET n == GrantStrings[k]
        IN  /\ n # <<>>
            /\ \A i \in 1..Len(n) : n[i] # ","
            /\ TrimSpace(n) = n
            /\ ~IsBuiltinName(n)

\* C24: in every registry state whose custom names are well-formed, for every
\* Grant g, ToGrant(g.Short()) and ToGrant(g.String()) both succeed and
\* return the same value.
C24_BothFormsDecodeAlike ==
    (call.op = "BothForms" /\ WellFormedNames) =>
        /\ call.ofShort.err = Nil
        /\ call.ofString.err = Nil
        /\ call.ofShort.grant = call.ofString.grant
        /\ call.ofShort.grant = call.g \cap NamedBits

C24_Witness ==
    /\ call.op = "BothForms"
    /\ lastSet = StrThisThatThose
    /\ WellFormedNames
    /\ call.g = GrantAuthenticated \cup {16, 17, 18}
    /\ call.short # call.string
    /\ call.ofShort = [grant |-> call.g, err |-> Nil]
    /\ call.ofString = [grant |-> call.g, err |-> Nil]

\* The comma-separated segments of a grant claim
Segments(claim) == {Split(claim, ",")[i] : i \in 1..Len(Split(claim, ","))}

\* C25: every token pair issued by RefreshToken, as by SignUp and
\* ValidateOtp, has the access grant Clean(Authenticated | GetCustomGrant())
\* of the registry at that call, whatever the token presented carried: the
\* claim names every custom grant registered then and none that is not.
C25_RefreshResolvesScope ==
    (/\ call.op \in {"RefreshToken", "SignUp", "ValidateOtp"}
     /\ call.err = Nil
     /\ call.op = "SignUp" \/ call.invoked) =>
        LET claim == call.ret.Token[1].grant
        IN  /\ Len(call.ret.Token) = 1
            /\ claim = Short(Clean({1, 2, 3, 8} \cup UNION CustomKeys))
            /\ call.ret.Token[1].exp = 60
            /\ StrAuthenticated \in Segments(claim)
            /\ \A k \in CustomKeys : GrantStrings[k] \in Segments(claim)
            /\ \A n \in {StrThis, StrThat, StrThose} :
                  (\A k \in CustomKeys : GrantStrings[k] # n) =>
                      n \notin Segments(claim)

C25_Witness ==
    /\ call.op = "RefreshToken"
    /\ call.err = Nil
    /\ call.invoked
    /\ call.bearer[1].grant = StrUsersRefresh
    /\ lastSet = <<StrThat, StrThose>>
    /\ call.ret.Token[1].grant =
          Join(<<StrAuthenticated, StrThat, StrThose>>, GrantDelimiter)

\* C26: in every registry state reachable through SetCustomGrants, two
\* evaluations of ToGrant on the same string return the same grant and the
\* same error: what a call returned is all that a call can return.
C26_ToGrantDeterministic ==
    call.op = "ToGrant" =>
        ToGrant(call.s) = {[grant |-> call.grant, err |-> call.err]}

\* C27: after any successful SetCustomGrants(names), for each custom entry
\* (bit b, name n) of the table ToGrant(n) succeeds and returns exactly b.
C27_CustomNamesParseBack ==
    (call.op = "SetCustomGrants" /\ call.err.nil) =>
        \A k \in CustomKeys :
            ToGrant(GrantStrings[k]) = {[grant |-> k, err |-> Nil]}

\* C28: once SetCustomGrants has replaced the registry so that a custom name
\* n is no longer registered, a request whose grant claim names n fails
\* ContainsGrant for every required grant.  The claims are those of tokens
\* issued with default options, "authenticated" followed by the custom names
\* registered at issuance.
C28_StaleScopesFailClosed ==
    call.op = "ContainsGrant" =>
        \A n \in Segments(call.claim.val) \ {StrAuthenticated} :
            (\A k \in CustomKeys : GrantStrings[k] # n) => call.ret # Nil

\* C29: in every sequence of SignUp, Login, SetTotp, ValidateOtp and
\* RefreshToken calls, an access token carrying any grant beyond OTPValidate
\* is issued for an account whose TotpEnabled flag is true only by a
\* ValidateOtp call whose OTP check succeeded.
C29_SecondFactorEnforced ==
    (/\ call.op \in {"SignUp", "Login", "RefreshToken"}
     /\ call.err = Nil
     /\ call.op = "RefreshToken" => call.invoked
     /\ db.TotpEnabled) =>
        call.ret.Token[1].grant = StrOTPValidate

RECURSIVE NamesAscIn(_, _)
NamesAscIn(table, bits) ==
    IF bits = {} THEN <<>>
    ELSE <<table[{Lowest(bits)}]>> \o NamesAscIn(table, bits \ {Lowest(bits)})

\* The grant claim GenerateTokens gives with default options when every one
\* of its reads sees table: "authenticated" and the custom names in bit order
DefaultClaimIn(table) ==
    LET bits == {i \in 16..23 : {i} \in DOMAIN table}
        other == Join(NamesAscIn(table, bits), GrantDelimiter)
    IN  IF bits = {} \/ other = <<>> THEN StrAuthenticated
        ELSE Join(<<StrAuthenticated, other>>, GrantDelimiter)

\* C30: when GenerateTokens with default options runs beside
\* SetCustomGrants(new), the grant claim of the access token is the claim
\* produced entirely under the old registry or entirely under the new one.
C30_IssuanceSeesOneRegistry ==
    (call.op = "GenerateTokens" /\ call.ret.err = Nil) =>
        \E table \in call.tables :
            call.ret.tkn[1].grant = DefaultClaimIn(table)

====
